---- MODULE Spec2Model ----
(***************************************************************************)
(* The content-stream interpreter of the PDF rasterizer: draw_doc and      *)
(* draw_text of src/src/lib.rs, driven through render_pdf of               *)
(* src/src/offscreen.rs.  One page render is one behaviour: Begin builds   *)
(* the font map and the interpreter state, every later step executes one   *)
(* operator of the content stream, Finish is the end of the stream.        *)
(*                                                                         *)
(* Numbers are f32 in the source.  Every operand of the model is a small   *)
(* integer, on which f32 arithmetic is exact, so they are integers here.   *)
(***************************************************************************)
EXTENDS Integers, Sequences, FiniteSets, TLC

VARIABLES
    pc,             \* where draw_doc is: "start", "loop", "done", "failed", "panicked"
                    \* ("pure" when no render runs and a function is called alone)
    err,            \* the error value draw_doc returned ("" while there is none)
    graphics_state, \* State.graphics_state: the Vec of graphics states, current one last
    scene,          \* the fill/stroke operations the canvas has received, in order
    font_map,       \* the page's font map: resource name -> font
    scale,          \* the DeviceScale of this render
    page_fonts,     \* get_page_fonts(page): resource name -> whether the font parses
    media_box,      \* page.get(b"MediaBox"): None when the page has no such entry
    n,              \* number of operators of content.operations taken so far
    op,             \* the operator of the current loop iteration
    origin,         \* history: for each scene operation, the n of the operator that emitted it
    saved,          \* history: for each open q, the current graphics state when it ran
    popped,         \* history: what the last Q restored against what its q had seen
    count,          \* history: operators and glyphs executed so far, by kind
    text,           \* history: whether a BT is open, and whether the stream nests it well
    built,          \* history: the path elements appended since the last painting operator
    call,           \* one call of a function outside a render: name, arguments, result
    viewer          \* the viewer process: where main and go are, the App, the exit status

vars == <<pc, err, graphics_state, scene, font_map, scale, page_fonts, media_box, n, op,
          origin, saved, popped, count, text, built, call, viewer>>

(***************************************************************************)
(* Bounds of the model.                                                    *)
(***************************************************************************)
MaxOps == 4
MaxBytes == 5
MaxStream == 6
MaxEvents == 3

(***************************************************************************)
(* lopdf objects, as far as operands use them.                             *)
(***************************************************************************)
Integer(i) == [t |-> "Integer", n |-> i]
Real(i) == [t |-> "Real", n |-> i]
Name(s) == [t |-> "Name", s |-> s]
Str(b) == [t |-> "String", b |-> b]
Array(e) == [t |-> "Array", e |-> e]

\* Object::as_float accepts Integer and Real and fails on every other object.
is_float(o) == o.t \in {"Integer", "Real"}
as_float(o) == o.n
all_float(a) == \A i \in 1..Len(a) : is_float(a[i])

None == <<>>
Some(x) == <<x>>
Last(s) == s[Len(s)]
Front(s) == SubSeq(s, 1, Len(s) - 1)

(***************************************************************************)
(* The data model.                                                         *)
(***************************************************************************)
TEXT_SCALE == 1000

CTMDefault == [a |-> 1, b |-> 0, c |-> 0, d |-> 1, e |-> 0, f |-> 0]

CTMOf(a) == [a |-> as_float(a[1]), b |-> as_float(a[2]), c |-> as_float(a[3]),
             d |-> as_float(a[4]), e |-> as_float(a[5]), f |-> as_float(a[6])]

TextStateDefault == [position |-> 0, size |-> 0, matrix |-> CTMDefault, font |-> None]

Black == [r |-> 0, g |-> 0, b |-> 0, a |-> 1]

rgbf(r, g, b) == [r |-> r, g |-> g, b |-> b, a |-> 1]

PathNew == <<>>

GraphicsStateDefault ==
    [ctm |-> CTMDefault, stroke_color |-> Black, non_stroke_color |-> Black,
     path |-> PathNew, text_state |-> None, line_width |-> 1]

StateDefault == <<GraphicsStateDefault>>

\* mutant of transform: the y axis is not flipped
transform_noflip(xy, ctm, sc) ==
    [x |-> sc.scale * (ctm.a * xy.x + ctm.c * xy.y + ctm.e),
     y |-> sc.scale * (ctm.b * xy.x + ctm.d * xy.y + ctm.f)]

transform(xy, ctm, sc) ==
    [x |-> sc.scale * (ctm.a * xy.x + ctm.c * xy.y + ctm.e),
     y |-> sc.height - (sc.scale * (ctm.b * xy.x + ctm.d * xy.y + ctm.f))]

\* mutant of concat: the translation of m1 is lost
concat_linear(m1, m2) ==
    [a |-> m1.a * m2.a + m1.c * m2.b,
     b |-> m1.b * m2.a + m1.d * m2.b,
     c |-> m1.a * m2.c + m1.c * m2.d,
     d |-> m1.b * m2.c + m1.d * m2.d,
     e |-> m1.a * m2.e + m1.b * m2.f,
     f |-> m1.b * m2.e + m1.d * m2.f]

concat(m1, m2) ==
    [a |-> m1.a * m2.a + m1.c * m2.b,
     b |-> m1.b * m2.a + m1.d * m2.b,
     c |-> m1.a * m2.c + m1.c * m2.d,
     d |-> m1.b * m2.c + m1.d * m2.d,
     e |-> m1.a * m2.e + m1.b * m2.f + m1.e,
     f |-> m1.b * m2.e + m1.d * m2.f + m1.f]

(***************************************************************************)
(* The fonts of the page.  A font is its width table and, per glyph id,    *)
(* the pixel bounding box rusttype reports at scale 1 (None for a glyph    *)
(* without outline, such as a space).                                      *)
(***************************************************************************)
Box(x, y, w, h) == [minx |-> x, miny |-> y, w |-> w, h |-> h]

Fonts ==
    [F0 |-> [name |-> "Font0", widths |-> <<500, 1000>>,
             boxes |-> <<Some(Box(0, -1, 1, 1)), None, Some(Box(0, -2, 1, 2))>>]]

\* mutant of width_of: the table is read from index 1
width_of_1based(font, gid) == IF gid \in DOMAIN font.widths THEN font.widths[gid] ELSE 0

\* font.widths.get(gid).unwrap_or(&0.): the table is indexed from glyph id 0
width_of(font, gid) == IF gid + 1 \in DOMAIN font.widths THEN font.widths[gid + 1] ELSE 0

\* positioned.pixel_bounding_box() of the glyph scaled by s
pixel_bounding_box(font, gid, s) ==
    IF gid + 1 \in DOMAIN font.boxes /\ font.boxes[gid + 1] # None
    THEN LET bx == font.boxes[gid + 1][1]
         IN Some(Box(bx.minx * s, bx.miny * s, bx.w * s, bx.h * s))
    ELSE None

(***************************************************************************)
(* The canvas operations draw_doc issues.                                  *)
(***************************************************************************)
StrokeOp(path, color, width) ==
    [kind |-> "stroke", path |-> path, color |-> color, width |-> width]
FillOp(path, color, rule) ==
    [kind |-> "fill", path |-> path, color |-> color, rule |-> rule]
ImageFillOp(path, rgb, x, y, w, h) ==
    [kind |-> "fill", path |-> path, rule |-> "NonZero",
     image |-> [rgb |-> rgb, x |-> x, y |-> y, w |-> w, h |-> h]]

MoveTo(p) == [v |-> "MoveTo", x |-> p.x, y |-> p.y]
LineTo(p) == [v |-> "LineTo", x |-> p.x, y |-> p.y]
BezierTo(p1, p2, p3) ==
    [v |-> "BezierTo", x1 |-> p1.x, y1 |-> p1.y, x2 |-> p2.x, y2 |-> p2.y,
     x |-> p3.x, y |-> p3.y]
Rect(p, wh) == [v |-> "Rect", x |-> p.x, y |-> p.y, w |-> wh.x, h |-> wh.y]
Close == [v |-> "Close"]

\* the path stroked by draw_doc before it enters the interpreter loop
DebugStroke == StrokeOp(<<MoveTo([x |-> 100, y |-> 100]), LineTo([x |-> 200, y |-> 200])>>,
                        Black, 1)

(***************************************************************************)
(* Results.  A closure over the current graphics state returns the state   *)
(* it leaves (the closure mutates it in place, also on its way to an       *)
(* error), the canvas operations it issued and its outcome: "ok", "err"    *)
(* with the message, or "panic".                                           *)
(***************************************************************************)
GsOk(gs, emit) == [out |-> "ok", gs |-> gs, emit |-> emit, msg |-> ""]
\* mutant of GsErr: the error is noted and the loop goes on
GsErr_continue(gs, emit, msg) == [out |-> "ok", gs |-> gs, emit |-> emit, msg |-> msg]
GsErr(gs, emit, msg) == [out |-> "err", gs |-> gs, emit |-> emit, msg |-> msg]
GsPanic(gs) == [out |-> "panic", gs |-> gs, emit |-> <<>>, msg |-> ""]

Ok(state, emit) == [out |-> "ok", state |-> state, emit |-> emit, msg |-> ""]
Err(state, msg) == [out |-> "err", state |-> state, emit |-> <<>>, msg |-> msg]

TypeError == "lopdf: object type"

\* mutant of alter_gfx_state: the closure's state is written into every frame
alter_gfx_state_all(state, r) ==
    IF Len(state) = 0
    THEN Err(state, "empty graphics stack")
    ELSE [out |-> r.out, state |-> [j \in 1..Len(state) |-> r.gs],
          emit |-> r.emit, msg |-> r.msg]

\* r is what the closure f returns when it is applied to the last graphics
\* state; it is not called when there is none
alter_gfx_state(state, r) ==
    IF Len(state) = 0
    THEN Err(state, "empty graphics stack")
    ELSE [out |-> r.out, state |-> [state EXCEPT ![Len(state)] = r.gs],
          emit |-> r.emit, msg |-> r.msg]

(***************************************************************************)
(* draw_text.  A TJ array is walked element by element: a string is cut    *)
(* into big-endian 16-bit glyph ids (chunks_exact(2) drops a trailing odd  *)
(* byte), a Real moves the pen back, every other object is skipped.        *)
(***************************************************************************)
glyph_ids(bytes) ==
    [k \in 1..(Len(bytes) \div 2) |-> bytes[2 * k - 1] * 256 + bytes[2 * k]]

\* mutant of draw_glyph: a glyph without bounding box is filled as well
draw_glyph_always(sc, gs, glyph_id, image_ok) ==
    LET ts == gs.text_state[1]
        font == Fonts[ts.font[1]]
        xy == transform([x |-> (ts.position * ts.size) \div TEXT_SCALE, y |-> 0],
                        ts.matrix, sc)
        gs1 == [gs EXCEPT !.text_state =
                    Some([ts EXCEPT !.position = ts.position + width_of(font, glyph_id)])]
        c == gs.non_stroke_color
    IN GsOk(gs1, <<ImageFillOp(<<Rect(xy, [x |-> 0, y |-> 0])>>, <<c.r, c.g, c.b>>,
                               xy.x, xy.y, 0, 0)>>)

\* one glyph: its origin is computed, the pen advanced, then the glyph emitted
draw_glyph(sc, gs, glyph_id, image_ok) ==
    LET ts == gs.text_state[1]
        font == Fonts[ts.font[1]]
        xy == transform([x |-> (ts.position * ts.size) \div TEXT_SCALE, y |-> 0],
                        ts.matrix, sc)
        width == width_of(font, glyph_id)
        gs1 == [gs EXCEPT !.text_state = Some([ts EXCEPT !.position = ts.position + width])]
        bb == pixel_bounding_box(font, glyph_id, ts.size * sc.scale)
    IN IF bb = None
       THEN GsOk(gs1, <<>>)
       ELSE IF ~image_ok
       THEN GsErr(gs1, <<>>, "create_image")
       ELSE LET m == bb[1]
                x0 == xy.x + m.minx
                y0 == xy.y + m.miny
                c == gs.non_stroke_color
            IN GsOk(gs1, <<ImageFillOp(<<Rect([x |-> x0, y |-> y0], [x |-> m.w, y |-> m.h])>>,
                                       <<c.r, c.g, c.b>>, x0, y0, m.w, m.h)>>)

RECURSIVE draw_glyphs(_, _, _, _, _, _)
draw_glyphs(sc, gs, ids, i, emit, image_ok) ==
    IF i > Len(ids)
    THEN GsOk(gs, emit)
    ELSE LET r == draw_glyph(sc, gs, ids[i], image_ok)
         IN IF r.out # "ok"
            THEN [r EXCEPT !.emit = emit]
            ELSE draw_glyphs(sc, r.gs, ids, i + 1, emit \o r.emit, image_ok)

RECURSIVE draw_elements(_, _, _, _, _, _)
draw_elements(sc, gs, glyphs, i, emit, image_ok) ==
    IF i > Len(glyphs)
    THEN GsOk(gs, emit)
    ELSE LET g == glyphs[i]
             ts == gs.text_state[1]
         IN CASE g.t = "String" ->
                   LET r == draw_glyphs(sc, gs, glyph_ids(g.b), 1, emit, image_ok)
                   IN IF r.out # "ok"
                      THEN r
                      ELSE draw_elements(sc, r.gs, glyphs, i + 1, r.emit, image_ok)
              [] g.t = "Real" ->
                   draw_elements(sc,
                       [gs EXCEPT !.text_state = Some([ts EXCEPT !.position = ts.position - g.n])],
                       glyphs, i + 1, emit, image_ok)
              [] OTHER -> draw_elements(sc, gs, glyphs, i + 1, emit, image_ok)

\* mutant of draw_text: a text state without font shows nothing and succeeds
draw_text_nocheck(sc, gs, glyphs, image_ok) ==
    IF gs.text_state = None
    THEN GsErr(gs, <<>>, "no font state")
    ELSE IF gs.text_state[1].font = None
    THEN GsOk(gs, <<>>)
    ELSE draw_elements(sc, gs, glyphs, 1, <<>>, image_ok)

draw_text(sc, gs, glyphs, image_ok) ==
    IF gs.text_state = None
    THEN GsErr(gs, <<>>, "no font state")
    ELSE IF gs.text_state[1].font = None
    THEN GsErr(gs, <<>>, "no font sent")
    ELSE draw_elements(sc, gs, glyphs, 1, <<>>, image_ok)

(***************************************************************************)
(* The arms of the match in draw_doc's loop: each maps the state (and the  *)
(* operands its pattern binds) to a result.                                *)
(***************************************************************************)
ArmBT(state) ==
    alter_gfx_state(state,
        LET gs == Last(state)
        IN GsOk([gs EXCEPT !.text_state = Some(TextStateDefault)], <<>>))

\* mutant of ArmTm: an existing text state keeps its pen, size and font
ArmTm_keep(state, a) ==
    alter_gfx_state(state,
        LET gs == Last(state) IN
            LET ts == IF gs.text_state = None THEN TextStateDefault ELSE gs.text_state[1]
            IN IF ~all_float(a)
               THEN GsErr([gs EXCEPT !.text_state = Some(ts)], <<>>, TypeError)
               ELSE GsOk([gs EXCEPT !.text_state =
                              Some([ts EXCEPT !.matrix = concat(gs.ctm, CTMOf(a))])],
                         <<>>))

ArmTm(state, a) ==
    alter_gfx_state(state,
        LET gs == Last(state) IN
            LET gs1 == [gs EXCEPT !.text_state = Some(TextStateDefault)]
            IN IF ~all_float(a)
               THEN GsErr(gs1, <<>>, TypeError)
               ELSE GsOk([gs1 EXCEPT !.text_state =
                              Some([TextStateDefault EXCEPT !.matrix = concat(gs.ctm, CTMOf(a))])],
                         <<>>))

\* mutant of ArmTf: the size is taken even when the font name is unknown
ArmTf_size(state, a, fm) ==
    alter_gfx_state(state,
        LET gs == Last(state) IN
            IF gs.text_state # None /\ is_float(a[2])
            THEN GsOk([gs EXCEPT !.text_state =
                           Some([gs.text_state[1] EXCEPT
                                    !.font = IF a[1].s \in DOMAIN fm
                                             THEN Some(fm[a[1].s]) ELSE @,
                                    !.size = as_float(a[2])])],
                      <<>>)
            ELSE GsOk(gs, <<>>))

\* the pattern is ("Tf", [Object::Name(n), size]); a[1] is the Name
ArmTf(state, a, fm) ==
    alter_gfx_state(state,
        LET gs == Last(state) IN
            IF a[1].s \in DOMAIN fm /\ gs.text_state # None
            THEN IF is_float(a[2])
                 THEN GsOk([gs EXCEPT !.text_state =
                                Some([gs.text_state[1] EXCEPT !.font = Some(fm[a[1].s]),
                                                              !.size = as_float(a[2])])],
                           <<>>)
                 ELSE GsPanic(gs)
            ELSE GsOk(gs, <<>>))

ArmTJ(state, a, sc, image_ok) ==
    alter_gfx_state(state,
        LET gs == Last(state) IN
            IF a[1].t # "Array"
            THEN GsErr(gs, <<>>, TypeError)
            ELSE draw_text(sc, gs, a[1].e, image_ok))

\* mutant of ArmET: ET leaves the text state in place
ArmET_keep(state) == alter_gfx_state(state, LET gs == Last(state) IN GsOk(gs, <<>>))

ArmET(state) ==
    alter_gfx_state(state, LET gs == Last(state) IN GsOk([gs EXCEPT !.text_state = None], <<>>))

\* mutant of Armcm: the path is started afresh under the new matrix
Armcm_newpath(state, a) ==
    IF ~all_float(a)
    THEN Err(state, TypeError)
    ELSE alter_gfx_state(state,
             LET gs == Last(state)
             IN GsOk([gs EXCEPT !.ctm = concat(gs.ctm, CTMOf(a)), !.path = PathNew], <<>>))

\* the operands are converted before alter_gfx_state is called
Armcm(state, a) ==
    IF ~all_float(a)
    THEN Err(state, TypeError)
    ELSE alter_gfx_state(state,
             LET gs == Last(state) IN GsOk([gs EXCEPT !.ctm = concat(gs.ctm, CTMOf(a))], <<>>))

\* mutant of Armq: the copy q pushes starts with an empty path
Armq_newpath(state) ==
    Ok(Append(state, IF Len(state) = 0 THEN GraphicsStateDefault
                     ELSE [Last(state) EXCEPT !.path = PathNew]), <<>>)

\* mutant of Armq: q on an empty stack fails like the other operators
Armq_strict(state) ==
    IF Len(state) = 0
    THEN Err(state, "empty graphics stack")
    ELSE Ok(Append(state, Last(state)), <<>>)

Armq(state) ==
    Ok(Append(state, IF Len(state) = 0 THEN GraphicsStateDefault ELSE Last(state)), <<>>)

\* mutant of ArmQ: the oldest state is removed instead of the newest
ArmQ_first(state) ==
    IF Len(state) = 0
    THEN Err(state, "Popped empty graphics stack")
    ELSE Ok(Tail(state), <<>>)

ArmQ(state) ==
    IF Len(state) = 0
    THEN Err(state, "Popped empty graphics stack")
    ELSE Ok(Front(state), <<>>)

to_color(a) == rgbf(as_float(a[1]), as_float(a[2]), as_float(a[3]))

Armscn(state, a) ==
    alter_gfx_state(state,
        LET gs == Last(state) IN
            IF ~all_float(a)
            THEN GsErr(gs, <<>>, TypeError)
            ELSE GsOk([gs EXCEPT !.non_stroke_color = to_color(a)], <<>>))

ArmSCN(state, a) ==
    alter_gfx_state(state,
        LET gs == Last(state) IN
            IF ~all_float(a)
            THEN GsErr(gs, <<>>, TypeError)
            ELSE GsOk([gs EXCEPT !.stroke_color = to_color(a)], <<>>))

Coord(x, y) == [x |-> as_float(x), y |-> as_float(y)]

Armm(state, a, sc) ==
    alter_gfx_state(state,
        LET gs == Last(state) IN
            IF ~all_float(a)
            THEN GsErr(gs, <<>>, TypeError)
            ELSE GsOk([gs EXCEPT !.path =
                           Append(gs.path, MoveTo(transform(Coord(a[1], a[2]), gs.ctm, sc)))],
                      <<>>))

Arml(state, a, sc) ==
    alter_gfx_state(state,
        LET gs == Last(state) IN
            IF ~all_float(a)
            THEN GsErr(gs, <<>>, TypeError)
            ELSE GsOk([gs EXCEPT !.path =
                           Append(gs.path, LineTo(transform(Coord(a[1], a[2]), gs.ctm, sc)))],
                      <<>>))

Armc(state, a, sc) ==
    alter_gfx_state(state,
        LET gs == Last(state) IN
            IF ~all_float(a)
            THEN GsErr(gs, <<>>, TypeError)
            ELSE GsOk([gs EXCEPT !.path =
                           Append(gs.path,
                                  BezierTo(transform(Coord(a[1], a[2]), gs.ctm, sc),
                                           transform(Coord(a[3], a[4]), gs.ctm, sc),
                                           transform(Coord(a[5], a[6]), gs.ctm, sc)))],
                      <<>>))

\* mutant of Armre: the size is taken from the operands as they are
Armre_plain(state, a, sc) ==
    alter_gfx_state(state,
        LET gs == Last(state) IN
            IF ~all_float(a)
            THEN GsErr(gs, <<>>, TypeError)
            ELSE LET xy0 == transform([x |-> as_float(a[1]), y |-> as_float(a[2])], gs.ctm, sc)
                     wh == [x |-> as_float(a[3]), y |-> as_float(a[4])]
                 IN GsOk([gs EXCEPT !.path = Append(gs.path, Rect(xy0, wh))], <<>>))

Armre(state, a, sc) ==
    alter_gfx_state(state,
        LET gs == Last(state) IN
            IF ~all_float(a)
            THEN GsErr(gs, <<>>, TypeError)
            ELSE LET x == as_float(a[1])
                     y == as_float(a[2])
                     w == as_float(a[3])
                     h == as_float(a[4])
                     xy0 == transform([x |-> x, y |-> y], gs.ctm, sc)
                     xy1 == transform([x |-> x + w, y |-> y + h], gs.ctm, sc)
                     wh == [x |-> xy1.x - xy0.x, y |-> xy1.y - xy0.y]
                 IN GsOk([gs EXCEPT !.path = Append(gs.path, Rect(xy0, wh))], <<>>))

Armh(state) ==
    alter_gfx_state(state,
        LET gs == Last(state) IN GsOk([gs EXCEPT !.path = Append(gs.path, Close)], <<>>))

\* ("f" | "f*", []): o is the operator name
\* mutant of Armf: f* fills with the non-zero rule too
Armf_nonzero(state, o) ==
    alter_gfx_state(state,
        LET gs == Last(state) IN
            GsOk([gs EXCEPT !.path = PathNew],
                 <<FillOp(gs.path, gs.non_stroke_color, "NonZero")>>))

Armf(state, o) ==
    alter_gfx_state(state,
        LET gs == Last(state) IN
            LET fill_rule == IF o = "f" THEN "NonZero" ELSE "EvenOdd"
            IN GsOk([gs EXCEPT !.path = PathNew],
                    <<FillOp(gs.path, gs.non_stroke_color, fill_rule)>>))

Armw(state, a) ==
    alter_gfx_state(state,
        LET gs == Last(state) IN
            IF ~all_float(a)
            THEN GsErr(gs, <<>>, TypeError)
            ELSE GsOk([gs EXCEPT !.line_width = as_float(a[1])], <<>>))

\* mutant of ArmS: the line width is not scaled to the device
ArmS_unscaled(state, sc) ==
    alter_gfx_state(state,
        LET gs == Last(state) IN
            GsOk([gs EXCEPT !.path = PathNew],
                 <<StrokeOp(gs.path, gs.stroke_color, gs.line_width)>>))

ArmS(state, sc) ==
    alter_gfx_state(state,
        LET gs == Last(state) IN
            GsOk([gs EXCEPT !.path = PathNew],
                 <<StrokeOp(gs.path, gs.stroke_color, gs.line_width * sc.scale)>>))

\* mutant of ArmOther: an operator without arm fails the page
ArmOther_fail(state) == Err(state, "unknown operator")

\* (o, a) => eprintln!(...): every operator no earlier arm matches
ArmOther(state) == Ok(state, <<>>)

(***************************************************************************)
(* The content streams of the model: at each iteration the next operator   *)
(* is any one of Operations.                                               *)
(***************************************************************************)
Op(o, a) == [o |-> o, a |-> a]

Ints(s) == [i \in 1..Len(s) |-> Integer(s[i])]

TextOps ==
    {Op("BT", <<>>), Op("ET", <<>>),
     Op("Tm", Ints(<<1, 0, 0, 1, 2, 3>>)),
     Op("Tm", <<Integer(1), Integer(0), Integer(0), Integer(1), Name("x"), Integer(0)>>),
     Op("Tf", <<Name("F0"), Integer(2)>>),
     Op("Tf", <<Name("F9"), Integer(2)>>),
     Op("Tf", <<Name("F0"), Name("x")>>),
     Op("TJ", <<Array(<<Str(<<0, 0, 0, 1>>)>>)>>),
     Op("TJ", <<Array(<<Str(<<0, 2, 7>>), Real(500), Integer(250), Str(<<0, 0>>)>>)>>),
     Op("TJ", <<Integer(1)>>)}

StateOps ==
    {Op("q", <<>>), Op("Q", <<>>),
     Op("cm", Ints(<<2, 0, 0, 2, 0, 0>>)),
     Op("cm", <<Integer(1), Integer(0), Integer(0), Integer(1), Real(3), Integer(5)>>),
     Op("cm", <<Integer(1), Integer(0), Integer(0), Integer(1), Integer(0), Str(<<0>>)>>),
     Op("w", <<Integer(3)>>), Op("w", <<Name("x")>>),
     Op("scn", Ints(<<1, 0, 0>>)), Op("scn", <<Integer(1), Name("x"), Integer(0)>>),
     Op("SCN", <<Integer(0), Real(1), Integer(0)>>)}

PathOps ==
    {Op("m", Ints(<<10, 10>>)), Op("m", <<Integer(1), Name("x")>>),
     Op("l", Ints(<<20, 30>>)),
     Op("c", Ints(<<1, 2, 3, 4, 5, 6>>)),
     Op("re", Ints(<<0, 0, 50, 40>>)),
     Op("h", <<>>)}

PaintOps == {Op("f", <<>>), Op("f*", <<>>), Op("S", <<>>)}

\* operators draw_doc has no arm for, and operand lists no pattern matches
OtherOps ==
    {Op("B", <<>>), Op("v", Ints(<<1, 2, 3, 4>>)), Op("gs", <<Name("GS0")>>),
     Op("Tj", <<Str(<<0, 0>>)>>), Op("Td", Ints(<<1, 2>>)), Op("Tz", Ints(<<100>>)),
     Op("TL", Ints(<<12>>)), Op("Tc", Ints(<<0>>)), Op("Tw", Ints(<<0>>)),
     Op("CS", <<Name("DeviceRGB")>>), Op("cs", <<Name("DeviceRGB")>>),
     Op("sc", Ints(<<1, 0, 0>>)), Op("SC", Ints(<<1, 0, 0>>)),
     Op("Do", <<Name("Im0")>>), Op("W", <<>>), Op("W*", <<>>),
     Op("rg", Ints(<<1, 0, 0>>)), Op("RG", Ints(<<1, 0, 0>>)),
     Op("n", <<>>),
     Op("Tf", <<Integer(1), Integer(2)>>), Op("m", Ints(<<1>>)), Op("Q", Ints(<<1>>))}

Operations == TextOps \cup StateOps \cup PathOps \cup PaintOps \cup OtherOps

\* the arm of `match (o, &op.operands[..])` that takes the operator
Matches(opr) ==
    LET o == opr.o
        k == Len(opr.a)
    IN CASE o = "BT" /\ k = 0 -> "BT"
         [] o = "Tm" /\ k = 6 -> "Tm"
         [] o = "Tf" /\ k = 2 /\ opr.a[1].t = "Name" -> "Tf"
         [] o = "TJ" /\ k = 1 -> "TJ"
         [] o = "ET" /\ k = 0 -> "ET"
         [] o = "cm" /\ k = 6 -> "cm"
         [] o = "q" /\ k = 0 -> "q"
         [] o = "Q" /\ k = 0 -> "Q"
         [] o = "scn" /\ k = 3 -> "scn"
         [] o = "SCN" /\ k = 3 -> "SCN"
         [] o = "m" /\ k = 2 -> "m"
         [] o = "l" /\ k = 2 -> "l"
         [] o = "c" /\ k = 6 -> "c"
         [] o = "re" /\ k = 4 -> "re"
         [] o = "h" /\ k = 0 -> "h"
         [] o \in {"f", "f*"} /\ k = 0 -> "f"
         [] o = "w" /\ k = 1 -> "w"
         [] o = "S" /\ k = 0 -> "S"
         [] OTHER -> "other"

\* the operators of the model each arm takes
Arms == {Matches(opr) : opr \in Operations}
Taken == [arm \in Arms |-> {opr \in Operations : Matches(opr) = arm}]

(***************************************************************************)
(* History kept beside the program state, for the properties below.        *)
(***************************************************************************)
Current(state) == IF Len(state) = 0 THEN None ELSE Some(Last(state))

NoPop == [matched |-> FALSE, before |-> None, dropped |-> None]

\* glyphs of a TJ array that have an outline in the current font
outlined(font, gid) == gid + 1 \in DOMAIN font.boxes /\ font.boxes[gid + 1] # None

RECURSIVE OutlinedIn(_, _, _)
OutlinedIn(font, glyphs, i) ==
    IF i > Len(glyphs)
    THEN 0
    ELSE (IF glyphs[i].t = "String"
          THEN Cardinality({k \in DOMAIN glyph_ids(glyphs[i].b) :
                                outlined(font, glyph_ids(glyphs[i].b)[k])})
          ELSE 0) + OutlinedIn(font, glyphs, i + 1)

ShownOutlined(state, opr) ==
    IF /\ Matches(opr) = "TJ" /\ opr.a[1].t = "Array"
       /\ Len(state) > 0 /\ Last(state).text_state # None
       /\ Last(state).text_state[1].font # None
    THEN OutlinedIn(Fonts[Last(state).text_state[1].font[1]], opr.a[1].e, 1)
    ELSE 0

\* the painting operators of a content stream among the names of the model
PaintingNames == {"f", "f*", "S", "B"}

(***************************************************************************)
(* One iteration of `for op in content.operations`: the arm's result is    *)
(* applied; `?` on an error returns it from draw_doc.                      *)
(***************************************************************************)
Step(opr, r) ==
    /\ pc = "loop"
    /\ n < MaxOps
    /\ n' = n + 1
    /\ op' = opr
    /\ graphics_state' = r.state
    /\ scene' = scene \o r.emit
    /\ origin' = origin \o [i \in 1..Len(r.emit) |-> n + 1]
    /\ pc' = CASE r.out = "ok" -> "loop"
               [] r.out = "err" -> "failed"
               [] r.out = "panic" -> "panicked"
    /\ err' = r.msg
    /\ saved' = CASE Matches(opr) = "q" -> Append(saved, Current(graphics_state))
                  [] Matches(opr) = "Q" /\ Len(saved) > 0 -> Front(saved)
                  [] OTHER -> saved
    /\ popped' = IF Matches(opr) = "Q" /\ r.out = "ok"
                 THEN [matched |-> Len(saved) > 0,
                       before |-> IF Len(saved) > 0 THEN Last(saved) ELSE None,
                       dropped |-> Current(graphics_state)]
                 ELSE NoPop
    /\ count' = [f |-> count.f + (IF Matches(opr) = "f" THEN 1 ELSE 0),
                 S |-> count.S + (IF Matches(opr) = "S" THEN 1 ELSE 0),
                 TJ |-> count.TJ + (IF Matches(opr) = "TJ" THEN 1 ELSE 0),
                 B |-> count.B + (IF opr.o = "B" THEN 1 ELSE 0),
                 glyphs |-> count.glyphs + ShownOutlined(graphics_state, opr)]
    /\ text' = [open |-> CASE Matches(opr) = "BT" -> TRUE
                            [] Matches(opr) = "ET" -> FALSE
                            [] OTHER -> text.open,
                nested |-> /\ text.nested
                           /\ Matches(opr) = "Tm" => text.open
                           /\ Matches(opr) \in {"q", "Q"} => ~text.open]
    /\ built' = CASE r.out # "ok" -> built
                  [] opr.o \in PaintingNames -> <<>>
                  [] Matches(opr) \in {"m", "l", "c", "re", "h"} ->
                         Append(built, Last(Last(r.state).path))
                  [] OTHER -> built
    /\ UNCHANGED <<font_map, scale, page_fonts, media_box, call, viewer>>

\* a 100 x 100 page on the 200 x 200 canvas of the save binary
DeviceScales == {[height |-> 200, scale |-> 2]}

\* the DeviceScale before draw_doc has computed it
NoScale == [height |-> 0, scale |-> 0]

\* the canvas render_pdf has sized to the renderer's texture
Canvas == [width |-> 200, height |-> 200]

\* the MediaBox entries of the pages rendered: an integer box at the origin,
\* the same box in reals, a box off the origin, a negative width, three
\* entries, a name, and a page without the entry
MediaBoxes ==
    {Some(Array(Ints(<<0, 0, 100, 100>>))),
     Some(Array(<<Integer(0), Integer(0), Real(100), Real(100)>>)),
     Some(Array(Ints(<<10, 10, 100, 100>>))),
     Some(Array(Ints(<<0, 0, -100, 100>>))),
     Some(Array(Ints(<<0, 0, 100>>))),
     Some(Name("A4")),
     None}

SizeOk(w, h) == [out |-> "ok", w |-> w, h |-> h, msg |-> ""]
SizeErr(msg) == [out |-> "err", w |-> 0, h |-> 0, msg |-> msg]

\* w.try_into() of an i64 into u32 (the numbers of the model are far below 2^32)
fits_u32(i) == i >= 0

dimensions(mb) ==
    IF mb = None
    THEN SizeErr("lopdf: dictionary key")
    ELSE IF mb[1].t # "Array"
    THEN SizeErr(TypeError)
    ELSE LET e == mb[1].e
         IN IF /\ Len(e) = 4
               /\ \A i \in 1..4 : e[i].t = "Integer"
               /\ e[1].n = 0 /\ e[2].n = 0
            THEN IF fits_u32(e[3].n) /\ fits_u32(e[4].n)
                 THEN SizeOk(e[3].n, e[4].n)
                 ELSE SizeErr("Expected w, h > 0")
            ELSE SizeErr("Expected [0 0 w h]")

PageFonts == {[F0 |-> TRUE], [F0 |-> TRUE, F1 |-> FALSE]}

NoOp == Op("", <<>>)

NoCall == [f |-> "", out |-> None]

\* no viewer process runs
NoViewer == [pc |-> "off"]

Init ==
    /\ pc = "start"
    /\ err = ""
    /\ graphics_state = <<>>
    /\ scene = <<>>
    /\ font_map = <<>>
    /\ scale = NoScale
    /\ page_fonts \in PageFonts
    /\ media_box \in MediaBoxes
    /\ n = 0
    /\ op = NoOp
    /\ origin = <<>>
    /\ saved = <<>>
    /\ popped = NoPop
    /\ count = [f |-> 0, S |-> 0, TJ |-> 0, B |-> 0, glyphs |-> 0]
    /\ text = [open |-> FALSE, nested |-> TRUE]
    /\ built = <<>>
    /\ call = NoCall
    /\ viewer = NoViewer

\* draw_doc up to the loop: the page size and the device scale, the font map
\* (one font that fails to parse fails the collect and with it the page),
\* State::default(), the stroked test path
Begin ==
    /\ pc = "start"
    /\ LET size == dimensions(media_box)
       IN IF size.out # "ok"
          THEN /\ pc' = "failed"
               /\ err' = size.msg
               /\ UNCHANGED <<graphics_state, scene, font_map, scale, origin>>
          ELSE /\ scale' = [height |-> Canvas.height, scale |-> Canvas.width \div size.w]
               /\ IF \E f \in DOMAIN page_fonts : ~page_fonts[f]
                  THEN /\ pc' = "failed"
                       /\ err' = "font"
                       /\ UNCHANGED <<graphics_state, scene, font_map, origin>>
                  ELSE /\ pc' = "loop"
                       /\ font_map' = [f \in DOMAIN page_fonts |-> f]
                       /\ graphics_state' = StateDefault
                       /\ scene' = Append(scene, DebugStroke)
                       /\ origin' = Append(origin, 0)
                       /\ err' = ""
    /\ UNCHANGED <<page_fonts, media_box, n, op, saved, popped, count, text, built, call,
                   viewer>>

OpBT == \E opr \in Taken["BT"] :
    Step(opr, ArmBT(graphics_state))
OpTm == \E opr \in Taken["Tm"] :
    Step(opr, ArmTm(graphics_state, opr.a))
OpTf == \E opr \in Taken["Tf"] :
    Step(opr, ArmTf(graphics_state, opr.a, font_map))
OpTJ == \E opr \in Taken["TJ"], image_ok \in BOOLEAN :
    Step(opr, ArmTJ(graphics_state, opr.a, scale, image_ok))
OpET == \E opr \in Taken["ET"] :
    Step(opr, ArmET(graphics_state))
Opcm == \E opr \in Taken["cm"] :
    Step(opr, Armcm(graphics_state, opr.a))
Opq == \E opr \in Taken["q"] :
    Step(opr, Armq(graphics_state))
OpQ == \E opr \in Taken["Q"] :
    Step(opr, ArmQ(graphics_state))
Opscn == \E opr \in Taken["scn"] :
    Step(opr, Armscn(graphics_state, opr.a))
OpSCN == \E opr \in Taken["SCN"] :
    Step(opr, ArmSCN(graphics_state, opr.a))
Opm == \E opr \in Taken["m"] :
    Step(opr, Armm(graphics_state, opr.a, scale))
Opl == \E opr \in Taken["l"] :
    Step(opr, Arml(graphics_state, opr.a, scale))
Opc == \E opr \in Taken["c"] :
    Step(opr, Armc(graphics_state, opr.a, scale))
Opre == \E opr \in Taken["re"] :
    Step(opr, Armre(graphics_state, opr.a, scale))
Oph == \E opr \in Taken["h"] :
    Step(opr, Armh(graphics_state))
Opf == \E opr \in Taken["f"] :
    Step(opr, Armf(graphics_state, opr.o))
Opw == \E opr \in Taken["w"] :
    Step(opr, Armw(graphics_state, opr.a))
OpS == \E opr \in Taken["S"] :
    Step(opr, ArmS(graphics_state, scale))
OpOther == \E opr \in Taken["other"] :
    Step(opr, ArmOther(graphics_state))

\* content.operations is exhausted: draw_doc returns Ok(())
Finish ==
    /\ pc = "loop"
    /\ pc' = "done"
    /\ UNCHANGED <<err, graphics_state, scene, font_map, scale, page_fonts, media_box,
                   n, op, origin, saved, popped, count, text, built, call, viewer>>

Next ==
    \/ Begin
    \/ OpBT \/ OpTm \/ OpTf \/ OpTJ \/ OpET
    \/ Opcm \/ Opq \/ OpQ \/ Opscn \/ OpSCN \/ Opw
    \/ Opm \/ Opl \/ Opc \/ Opre \/ Oph
    \/ Opf \/ OpS
    \/ OpOther
    \/ Finish

Spec == Init /\ [][Next]_vars

(***************************************************************************)
(* The functions of lib.rs called on their own, outside a render: the      *)
(* arguments are drawn in InitPure and one action per function applies it. *)
(***************************************************************************)
Bytes == {0, 1, 2}

ByteStrings == UNION {[1..k -> Bytes] : k \in 0..MaxBytes}

\* a graphics state inside a text object, after Tf has selected F0
TextGs(position, size) ==
    [GraphicsStateDefault EXCEPT !.text_state =
        Some([position |-> position, size |-> size, matrix |-> CTMDefault,
              font |-> Some("F0")])]

\* TJ arrays: one string of any bytes, and two strings around one number
TJArrays ==
    {<<Str(b)>> : b \in ByteStrings}
    \cup {<<Str(b1), x, Str(b2)>> :
             b1 \in {<<0, 0>>, <<0, 1, 0, 0>>}, x \in {Real(500), Integer(500)},
             b2 \in {<<0, 0>>, <<0, 0, 0, 0>>}}

DrawTextCalls ==
    {[f |-> "draw_text", gs |-> TextGs(p, s), glyphs |-> g, out |-> None] :
        p \in {0, 500}, s \in {2, 10}, g \in TJArrays}

\* matrices with entries a..d in {0, 1} and translation (0, 0) or (2, 3)
Matrices ==
    {[a |-> a, b |-> b, c |-> c, d |-> d, e |-> t[1], f |-> t[2]] :
        a \in {0, 1}, b \in {0, 1}, c \in {0, 1}, d \in {0, 1}, t \in {<<0, 0>>, <<2, 3>>}}

ConcatCalls ==
    {[f |-> "concat", m1 |-> m1, m2 |-> m2, out |-> None] : m1 \in Matrices, m2 \in Matrices}

\* concat nested both ways over three matrices
ConcatTwiceCalls ==
    {[f |-> "concat twice", A |-> A, B |-> B, C |-> C, out |-> None] :
        A \in Matrices, B \in Matrices, C \in Matrices}

Points == {[x |-> x, y |-> y] : x \in {-1, 0, 3, 7}, y \in {-1, 0, 3, 7}}

TransformCalls ==
    {[f |-> "transform", xy |-> xy, ctm |-> ctm,
      sc |-> [height |-> h, scale |-> k], out |-> None] :
        xy \in Points, ctm \in {m \in Matrices : m.a = 1 /\ m.d = 1},
        h \in {100, 200}, k \in {1, 2}}

\* concat followed by transform, against transform after the map of m2
ComposeCalls ==
    {[f |-> "compose", m1 |-> m1, m2 |-> m2, xy |-> xy,
      sc |-> [height |-> 200, scale |-> 2], out |-> None] :
        m1 \in Matrices, m2 \in Matrices, xy \in Points}

(***************************************************************************)
(* The difference image of the compare and diff_images binaries, pixel by  *)
(* pixel.  A pixel is its R, G, B, A channels, each a u8.                  *)
(***************************************************************************)
abs(i) == IF i < 0 THEN 0 - i ELSE i
max(i, j) == IF i > j THEN i ELSE j
min(i, j) == IF i < j THEN i ELSE j

Rgba(r, g, b, a) == <<r, g, b, a>>

\* the largest absolute channel difference over R, G, B
pixel_diff(actual_pixel, expected_pixel) ==
    max(max(abs(actual_pixel[1] - expected_pixel[1]),
            abs(actual_pixel[2] - expected_pixel[2])),
        abs(actual_pixel[3] - expected_pixel[3]))

\* compare.rs: compare_images, the pixel written to difference.png
compare_pixel(actual_pixel, expected_pixel) ==
    LET scaled_diff == min(pixel_diff(actual_pixel, expected_pixel) * 3, 255)
    IN Rgba(scaled_diff, scaled_diff, scaled_diff, 255)

\* diff_images.rs: compare_images, the pixel written to the diff image
diff_images_pixel(actual_pixel, expected_pixel) ==
    LET scaled_diff == min(pixel_diff(actual_pixel, expected_pixel) * 5, 255)
    IN Rgba(scaled_diff, scaled_diff, scaled_diff, 255)

Channels == {0, 40, 100, 255}

Pixels == {Rgba(r, g, b, 255) : r \in Channels, g \in Channels, b \in Channels}

DifferenceCalls ==
    {[f |-> "difference", actual |-> p1, expected |-> p2, out |-> None] :
        p1 \in Pixels, p2 \in Pixels}

\* the re arm on a state of one graphics state, at scale 1 and at scale 2
ReCalls ==
    {[f |-> "re", state |-> <<[GraphicsStateDefault EXCEPT !.ctm = m]>>,
      a |-> Ints(<<x, y, w, h>>), sc |-> sc, out |-> None] :
        m \in Matrices, x \in {0, 10}, y \in {0, 10}, w \in {10, 50}, h \in {10, 50},
        sc \in {[height |-> 100, scale |-> 1], [height |-> 200, scale |-> 2]}}

\* graphics states as Tf finds them: outside a text object, right after BT,
\* and after text was shown with F0 under a CTM, colors and line width set
TfTops ==
    {GraphicsStateDefault,
     [GraphicsStateDefault EXCEPT !.text_state = Some(TextStateDefault)],
     TextGs(500, 10),
     [TextGs(0, 2) EXCEPT !.ctm = [a |-> 2, b |-> 0, c |-> 0, d |-> 2, e |-> 0, f |-> 0],
                          !.stroke_color = rgbf(1, 0, 0), !.line_width = 3,
                          !.path = <<MoveTo([x |-> 20, y |-> 180])>>]}

\* the Tf arm on a stack of one or two graphics states, with a font name that
\* is or is not a key of the font map and a size that is or is not a number
TfCalls ==
    {[f |-> "Tf", state |-> s, a |-> <<Name(nm), size>>, fm |-> fm, out |-> None] :
        s \in {<<t>> : t \in TfTops} \cup {<<b, t>> : b \in TfTops, t \in TfTops},
        nm \in {"F0", "F1", "F9"}, size \in {Integer(2), Real(12), Name("x")},
        fm \in {[F0 |-> "F0"], [F1 |-> "F1"]}}

(***************************************************************************)
(* The interpreter loop of draw_doc on a whole content stream, as a        *)
(* function of the state it starts from.                                   *)
(***************************************************************************)
\* match (o, &op.operands[..]): the arm that takes opr, applied to state
Arm(state, opr, sc, fm, image_ok) ==
    CASE Matches(opr) = "BT" -> ArmBT(state)
      [] Matches(opr) = "Tm" -> ArmTm(state, opr.a)
      [] Matches(opr) = "Tf" -> ArmTf(state, opr.a, fm)
      [] Matches(opr) = "TJ" -> ArmTJ(state, opr.a, sc, image_ok)
      [] Matches(opr) = "ET" -> ArmET(state)
      [] Matches(opr) = "cm" -> Armcm(state, opr.a)
      [] Matches(opr) = "q" -> Armq(state)
      [] Matches(opr) = "Q" -> ArmQ(state)
      [] Matches(opr) = "scn" -> Armscn(state, opr.a)
      [] Matches(opr) = "SCN" -> ArmSCN(state, opr.a)
      [] Matches(opr) = "m" -> Armm(state, opr.a, sc)
      [] Matches(opr) = "l" -> Arml(state, opr.a, sc)
      [] Matches(opr) = "c" -> Armc(state, opr.a, sc)
      [] Matches(opr) = "re" -> Armre(state, opr.a, sc)
      [] Matches(opr) = "h" -> Armh(state)
      [] Matches(opr) = "f" -> Armf(state, opr.o)
      [] Matches(opr) = "w" -> Armw(state, opr.a)
      [] Matches(opr) = "S" -> ArmS(state, sc)
      [] OTHER -> ArmOther(state)

\* what the loop has done so far: the outcome, the stack after each operator
\* that ran (trace[1] is the stack before the first), and what each of them
\* sent to the canvas
Started(state) ==
    [out |-> "ok", msg |-> "", state |-> state, trace |-> <<state>>, sent |-> <<>>]

\* for op in content.operations: the loop stops at the first error
RECURSIVE draw_ops(_, _, _, _, _)
draw_ops(run, ops, i, sc, fm) ==
    IF i > Len(ops) \/ run.out # "ok"
    THEN run
    ELSE LET r == Arm(run.state, ops[i], sc, fm, TRUE)
         IN draw_ops([out |-> r.out, msg |-> r.msg, state |-> r.state,
                      trace |-> Append(run.trace, r.state),
                      sent |-> Append(run.sent, r.emit)],
                     ops, i + 1, sc, fm)

\* content streams of up to MaxStream operators that begin a path with m
\* and go on building a line, saving, restoring and stroking in any order
LineOps == {Op("m", Ints(<<10, 10>>)), Op("l", Ints(<<20, 30>>)),
            Op("q", <<>>), Op("Q", <<>>), Op("S", <<>>)}

LineStreams ==
    {<<Op("m", Ints(<<10, 10>>))>> \o s : s \in UNION {[1..k -> LineOps] : k \in 0..(MaxStream - 1)}}

\* a graphics state with every field away from its default
BusyGs(m) ==
    [ctm |-> m, stroke_color |-> rgbf(1, 0, 0), non_stroke_color |-> rgbf(0, 0, 1),
     path |-> <<MoveTo([x |-> 2, y |-> 198])>>,
     text_state |-> Some([position |-> 500, size |-> 10, matrix |-> m, font |-> Some("F0")]),
     line_width |-> 3]

\* one path-construction operator between two cm, or followed by one
PathCmStreams ==
    LET cms == {Op("cm", Ints(<<2, 0, 0, 2, 0, 0>>)), Op("cm", Ints(<<1, 0, 0, 1, 5, 7>>)),
                Op("cm", Ints(<<0, 1, 1, 0, 0, 0>>))}
        paths == {opr \in PathOps : Matches(opr) \in {"m", "l", "c", "re"} /\ all_float(opr.a)}
    IN {<<p, c>> : p \in paths, c \in cms}
       \cup {<<c1, p, c2>> : c1 \in cms, p \in paths, c2 \in cms}

StreamCalls ==
    {[f |-> "draw_ops", state |-> StateDefault, ops |-> s,
      sc |-> [height |-> 200, scale |-> 2], out |-> None] : s \in LineStreams}
    \cup {[f |-> "draw_ops", state |-> <<GraphicsStateDefault, BusyGs(m)>>, ops |-> s,
           sc |-> sc, out |-> None] :
              m \in Matrices, s \in PathCmStreams,
              sc \in {[height |-> 100, scale |-> 1], [height |-> 200, scale |-> 2]}}

Calls ==
    StreamCalls \cup DrawTextCalls \cup ConcatCalls \cup ConcatTwiceCalls \cup TransformCalls
    \cup ComposeCalls \cup DifferenceCalls \cup ReCalls \cup TfCalls

InitPure ==
    /\ pc = "pure"
    /\ err = ""
    /\ graphics_state = <<>>
    /\ scene = <<>>
    /\ font_map = <<>>
    /\ scale \in DeviceScales
    /\ page_fonts = <<>>
    /\ media_box = None
    /\ n = 0
    /\ op = NoOp
    /\ origin = <<>>
    /\ saved = <<>>
    /\ popped = NoPop
    /\ count = [f |-> 0, S |-> 0, TJ |-> 0, B |-> 0, glyphs |-> 0]
    /\ text = [open |-> FALSE, nested |-> TRUE]
    /\ built = <<>>
    /\ call \in Calls
    /\ viewer = NoViewer

Apply(f, out) ==
    /\ pc = "pure"
    /\ call.f = f
    /\ call.out = None
    /\ call' = [call EXCEPT !.out = Some(out)]
    /\ UNCHANGED <<pc, err, graphics_state, scene, font_map, scale, page_fonts, media_box,
                   n, op, origin, saved, popped, count, text, built, viewer>>

CallDrawText == \E image_ok \in BOOLEAN :
    Apply("draw_text", draw_text(scale, call.gs, call.glyphs, image_ok))

CallConcat == Apply("concat", concat(call.m1, call.m2))

CallConcatTwice ==
    Apply("concat twice", [left |-> concat(concat(call.A, call.B), call.C),
                           right |-> concat(call.A, concat(call.B, call.C))])

CallTransform == Apply("transform", transform(call.xy, call.ctm, call.sc))

\* the point xy mapped through the matrix alone
apply_ctm(xy, ctm) ==
    [x |-> ctm.a * xy.x + ctm.c * xy.y + ctm.e,
     y |-> ctm.b * xy.x + ctm.d * xy.y + ctm.f]

CallCompose ==
    Apply("compose", [composed |-> transform(call.xy, concat(call.m1, call.m2), call.sc),
                      stepwise |-> transform(apply_ctm(call.xy, call.m2), call.m1, call.sc)])

CallDifference ==
    Apply("difference", [compare |-> compare_pixel(call.actual, call.expected),
                         diff_images |-> diff_images_pixel(call.actual, call.expected)])

CallRe == Apply("re", Armre(call.state, call.a, call.sc))

CallTf == Apply("Tf", ArmTf(call.state, call.a, call.fm))

CallOps ==
    Apply("draw_ops", draw_ops(Started(call.state), call.ops, 1, call.sc, [F0 |-> "F0"]))

NextPure ==
    \/ CallRe
    \/ CallTf
    \/ CallOps
    \/ CallDrawText
    \/ CallConcat
    \/ CallConcatTwice
    \/ CallTransform
    \/ CallCompose
    \/ CallDifference

SpecPure == InitPure /\ [][NextPure]_vars

(***************************************************************************)
(* The viewer (main.rs; bin/viewer.rs has the same main, go and            *)
(* window_event): main calls go, go loads the document and runs the winit  *)
(* event loop on an App, whose handlers get the window's events.           *)
(***************************************************************************)
\* viewer.code is how the process ended: "SUCCESS" or "FAILURE" for the
\* ExitCode main returned, "Err" when main returned an error, "" while it runs
InitViewer ==
    /\ pc = "viewer"
    /\ err = ""
    /\ graphics_state = <<>>
    /\ scene = <<>>
    /\ font_map = <<>>
    /\ scale = NoScale
    /\ page_fonts = <<>>
    /\ media_box \in MediaBoxes
    /\ n = 0
    /\ op = NoOp
    /\ origin = <<>>
    /\ saved = <<>>
    /\ popped = NoPop
    /\ count = [f |-> 0, S |-> 0, TJ |-> 0, B |-> 0, glyphs |-> 0]
    /\ text = [open |-> FALSE, nested |-> TRUE]
    /\ built = <<>>
    /\ call = NoCall
    /\ \E args \in 0..2, readable \in BOOLEAN :
           viewer = [pc |-> "main", args |-> args, readable |-> readable,
                     renderer |-> FALSE, exit |-> FALSE, redraws |-> 0, ignored |-> 0,
                     code |-> ""]

render_vars == <<pc, err, graphics_state, scene, font_map, scale, page_fonts, media_box,
                 n, op, origin, saved, popped, count, text, built, call>>

\* main: exactly one argument calls go, anything else prints the usage and
\* returns ExitCode::FAILURE
main ==
    /\ viewer.pc = "main"
    /\ viewer' = IF viewer.args = 1
                 THEN [viewer EXCEPT !.pc = "go"]
                 ELSE [viewer EXCEPT !.pc = "exited", !.code = "FAILURE"]
    /\ UNCHANGED render_vars

\* go up to run_app: each `?` returns the error, which main's `?` returns in
\* turn; event_loop_ok is the outcome of EventLoop::new()
go ==
    /\ viewer.pc = "go"
    /\ \E event_loop_ok \in BOOLEAN :
           viewer' = IF /\ viewer.readable
                        /\ dimensions(media_box).out = "ok"
                        /\ event_loop_ok
                     THEN [viewer EXCEPT !.pc = "run_app"]
                     ELSE [viewer EXCEPT !.pc = "exited", !.code = "Err"]
    /\ UNCHANGED render_vars

\* App::resumed: the window and the renderer are created, each with unwrap
resumed ==
    /\ viewer.pc = "run_app"
    /\ \E started \in BOOLEAN :
           viewer' = IF started
                     THEN [viewer EXCEPT !.pc = "events", !.renderer = TRUE]
                     ELSE [viewer EXCEPT !.pc = "panicked"]
    /\ UNCHANGED render_vars

\* the event loop hands over window events until exit() has been called
Delivering ==
    /\ viewer.pc = "events"
    /\ ~viewer.exit
    /\ viewer.redraws + viewer.ignored < MaxEvents

\* WindowEvent::CloseRequested => event_loop.exit()
CloseRequested ==
    /\ Delivering
    /\ viewer' = [viewer EXCEPT !.exit = TRUE]
    /\ UNCHANGED render_vars

\* WindowEvent::RedrawRequested => renderer.draw(&self.doc).unwrap()
RedrawRequested ==
    /\ Delivering
    /\ \E drawn \in BOOLEAN :
           viewer' = IF drawn
                     THEN [viewer EXCEPT !.redraws = @ + 1]
                     ELSE [viewer EXCEPT !.pc = "panicked"]
    /\ UNCHANGED render_vars

\* _ => (): every other window event
OtherEvent ==
    /\ Delivering
    /\ viewer' = [viewer EXCEPT !.ignored = @ + 1]
    /\ UNCHANGED render_vars

\* event_loop.run_app(&mut app)?: after exit() the event loop ends and
\* run_app returns, Ok or with the event loop's error, which `?` returns
run_app_returns ==
    /\ viewer.pc = "events"
    /\ viewer.exit
    /\ \E ok \in BOOLEAN :
           viewer' = IF ok
                     THEN [viewer EXCEPT !.pc = "loop"]
                     ELSE [viewer EXCEPT !.pc = "exited", !.code = "Err"]
    /\ UNCHANGED render_vars

\* loop { std::thread::sleep(Duration::from_secs(1)); }: the thread goes to
\* sleep ...
sleep ==
    /\ viewer.pc = "loop"
    /\ viewer' = [viewer EXCEPT !.pc = "sleeping"]
    /\ UNCHANGED render_vars

\* ... and wakes up a second later at the head of the same loop, which has
\* no break and no return
wake ==
    /\ viewer.pc = "sleeping"
    /\ viewer' = [viewer EXCEPT !.pc = "loop"]
    /\ UNCHANGED render_vars

NextViewer ==
    \/ main
    \/ go
    \/ resumed
    \/ CloseRequested
    \/ RedrawRequested
    \/ OtherEvent
    \/ run_app_returns
    \/ sleep
    \/ wake

\* the process's own steps are taken whenever they can be (the thread is
\* scheduled); which events the window delivers, and whether any, is up to
\* the user
SpecViewer ==
    /\ InitViewer
    /\ [][NextViewer]_vars
    /\ WF_vars(main)
    /\ WF_vars(go)
    /\ WF_vars(resumed)
    /\ WF_vars(run_app_returns)
    /\ WF_vars(sleep)
    /\ WF_vars(wake)

(***************************************************************************)
(* Properties.                                                             *)
(***************************************************************************)
\* the error kinds of the specification, as the messages draw_doc returns
UnbalancedStack == {"Popped empty graphics stack"}
MissingTextState == {"no font state", "no font sent"}

Running == pc \in {"loop", "done"}
Stepped == n' = n + 1
Fills == {i \in DOMAIN scene : scene[i].kind = "fill"}

\* C1: a Q that no open q matches fails the render with UnbalancedStack; when it
\* is the first operator of the stream the scene has received nothing.
C1_UnmatchedQFails ==
    (Matches(op) = "Q" /\ ~popped.matched)
        => /\ pc = "failed"
           /\ err \in UnbalancedStack
           /\ n = 1 => Len(scene) = 0

\* C2: while no fatal error has been returned the interpreter holds a current
\* graphics state.
C2_StateNeverEmpty == Running => Len(graphics_state) > 0

\* C3: the Q that closes a q ... Q pair leaves the current graphics state equal
\* to the one the q saw, whatever the balanced operators in between did.
C3_RestoreAfterQ ==
    (Matches(op) = "Q" /\ pc = "loop" /\ popped.matched)
        => Current(graphics_state) = popped.before

\* a matched Q has just discarded a state whose CTM a cm inside the pair changed
C3_Witness ==
    /\ Matches(op) = "Q" /\ pc = "loop" /\ popped.matched
    /\ popped.before # None /\ popped.dropped # None
    /\ popped.dropped[1].ctm # popped.before[1].ctm

\* C4: right after f, f*, S or B has executed without error, the path of the
\* current graphics state is empty.
C4_PathEmptyAfterPaint ==
    (op.o \in {"f", "f*", "S", "B"} /\ Len(op.a) = 0 /\ pc = "loop"
     /\ Len(graphics_state) > 0)
        => Last(graphics_state).path = PathNew

\* C5 as stated: for every operator sequence, the current graphics state has a
\* text state exactly when a BT has been executed with no ET after it.
C5_TextStateIffOpen ==
    (Running /\ Len(graphics_state) > 0)
        => ((Last(graphics_state).text_state # None) <=> text.open)

\* C5 as amended: in a stream that executes Tm only inside BT ... ET and q and Q
\* only outside of it, the current graphics state has a text state exactly when
\* a BT has been executed with no ET after it.
C5_TextStateIffOpenNested ==
    (Running /\ Len(graphics_state) > 0 /\ text.nested)
        => ((Last(graphics_state).text_state # None) <=> text.open)

\* a text object is open inside a q and has a font selected
C5_Witness ==
    /\ Running /\ text.nested /\ text.open
    /\ Len(graphics_state) > 1
    /\ Last(graphics_state).text_state # None
    /\ Last(graphics_state).text_state[1].font # None

\* C6: every scene operation was emitted by an operator of the content stream,
\* and the scene holds them in the order of those operators.
C6_SceneInOperatorOrder ==
    \A i \in DOMAIN scene :
        /\ origin[i] >= 1
        /\ i > 1 => origin[i - 1] <= origin[i]

\* C7: the scene holds at most as many fills as f and f* operators, glyphs with
\* an outline shown by TJ, and B operators have been executed.
C7_FillBound == Cardinality(Fills) <= count.f + count.glyphs + count.B

\* fills from a painting operator as well as from glyphs
C7_Witness ==
    /\ count.f >= 1 /\ count.glyphs >= 1
    /\ Cardinality(Fills) = count.f + count.glyphs

\* C8: a stream without f, f*, S, B and TJ that has been rendered to its end
\* has caused no scene operation.
C8_NoPaintNoScene ==
    (pc = "done" /\ count.f = 0 /\ count.S = 0 /\ count.B = 0 /\ count.TJ = 0)
        => Len(scene) = 0

\* C9: an operator the interpreter has no arm for produces no error and no
\* scene operation and leaves the stack of graphics states as it was.
UnhandledNames ==
    {"Tj", "Td", "Tz", "TL", "Tc", "Tw", "CS", "cs", "sc", "SC", "Do", "W", "W*",
     "rg", "RG"}

C9_UnhandledIgnored ==
    [][(Stepped /\ (op'.o \in UnhandledNames \/ Matches(op') = "other"))
           => /\ pc' = "loop"
              /\ err' = ""
              /\ scene' = scene
              /\ graphics_state' = graphics_state]_vars

\* an unhandled operator was executed while a path and a saved state existed
C9_Witness ==
    /\ op.o \in UnhandledNames /\ pc = "loop"
    /\ Len(graphics_state) > 1 /\ Last(graphics_state).path # PathNew

\* C10: a TJ with an array operand, executed when the current graphics state has
\* no text state or a text state without font, fails with MissingTextState,
\* emits nothing and changes no state.
C10_TJWithoutFontFails ==
    [][(/\ Stepped /\ Matches(op') = "TJ" /\ op'.a[1].t = "Array"
        /\ Len(graphics_state) > 0
        /\ \/ Last(graphics_state).text_state = None
           \/ Last(graphics_state).text_state[1].font = None)
           => /\ pc' = "failed"
              /\ err' \in MissingTextState
              /\ scene' = scene
              /\ graphics_state' = graphics_state]_vars

\* inside BT, a TJ failed on a text state that a Tm had positioned and that has
\* no font
C10_Witness ==
    /\ pc = "failed" /\ err = "no font sent" /\ Matches(op) = "TJ" /\ text.open
    /\ Last(graphics_state).text_state[1].matrix # CTMDefault

(***************************************************************************)
(* Properties of the functions called alone (SpecPure).                    *)
(***************************************************************************)
Called(f) == call.f = f /\ call.out # None

Returned(f) == Called(f) /\ call.out[1].out = "ok"

position_of(gs) == gs.text_state[1].position

\* the k-th two-byte code of a string, high byte first
Code(b, k) == 256 * b[2 * k - 1] + b[2 * k]

TableWidth(w, gid) == IF gid < Len(w) THEN w[gid + 1] ELSE 0

RECURSIVE SumWidths(_, _, _)
SumWidths(w, b, k) ==
    IF k = 0 THEN 0 ELSE SumWidths(w, b, k - 1) + TableWidth(w, Code(b, k))

HasOutline(font, gid) == gid < Len(font.boxes) /\ font.boxes[gid + 1] # None

\* C11: a TJ string element of n bytes advances the pen by the sum of the
\* table widths of its n \div 2 big-endian glyph ids, a glyph id outside the
\* table counting 0 and a trailing odd byte being dropped; a glyph without
\* outline emits nothing and still advances the pen.
C11_StringAdvance ==
    (Returned("draw_text") /\ Len(call.glyphs) = 1) =>
        LET b == call.glyphs[1].b
            k == Len(b) \div 2
            r == call.out[1]
        IN /\ position_of(r.gs) = position_of(call.gs) + SumWidths(Fonts.F0.widths, b, k)
           /\ Len(r.emit) = Cardinality({i \in 1..k : HasOutline(Fonts.F0, Code(b, i))})

\* <0001 0002 00>: a glyph without outline, a glyph outside the width table
\* and a trailing byte
C11_Witness ==
    /\ Returned("draw_text")
    /\ call.glyphs = <<Str(<<0, 1, 0, 2, 0>>)>>
    /\ position_of(call.out[1].gs) = position_of(call.gs) + 1000
    /\ Len(call.out[1].emit) = 1

\* what the elements before index i of a TJ array add to the pen when every
\* number, Real or Integer, is subtracted
RECURSIVE PenBefore(_, _, _)
PenBefore(w, g, i) ==
    IF i <= 1 THEN 0
    ELSE PenBefore(w, g, i - 1) +
         (IF g[i - 1].t = "String"
          THEN SumWidths(w, g[i - 1].b, Len(g[i - 1].b) \div 2)
          ELSE IF g[i - 1].t \in {"Real", "Integer"} THEN 0 - g[i - 1].n ELSE 0)

\* C12: every numeric element of a TJ array, Real or Integer, is subtracted
\* from the pen position.
C12_NumbersSubtracted ==
    Returned("draw_text") =>
        position_of(call.out[1].gs) =
            position_of(call.gs) + PenBefore(Fonts.F0.widths, call.glyphs, Len(call.glyphs) + 1)

\* the pen positions at which the outlined glyphs of one string are due, the
\* pen being at base before the string
StringPens(font, b, base) ==
    LET Outlined(e) == HasOutline(font, e.gid)
    IN SelectSeq([k \in 1..(Len(b) \div 2) |->
                     [gid |-> Code(b, k), pen |-> base + SumWidths(font.widths, b, k - 1)]],
                 Outlined)

RECURSIVE GlyphPens(_, _, _, _)
GlyphPens(font, g, i, base) ==
    IF i > Len(g) THEN <<>>
    ELSE (IF g[i].t = "String"
          THEN StringPens(font, g[i].b, base + PenBefore(font.widths, g, i))
          ELSE <<>>) \o GlyphPens(font, g, i + 1, base)

\* C13: each glyph of a TJ is emitted at the pen position accumulated from
\* what precedes it (glyph widths minus numeric adjustments), its own width
\* being added only afterwards: under the identity text matrix the k-th
\* glyph lies at device x = scale * size * pen / 1000 plus its bearing.
C13_GlyphAtPenBefore ==
    Returned("draw_text") =>
        LET ts == call.gs.text_state[1]
            r == call.out[1]
            pens == GlyphPens(Fonts.F0, call.glyphs, 1, ts.position)
        IN /\ Len(r.emit) = Len(pens)
           /\ \A j \in 1..Len(pens) :
                r.emit[j].image.x =
                    scale.scale * ((pens[j].pen * ts.size) \div TEXT_SCALE)
                    + Fonts.F0.boxes[pens[j].gid + 1][1].minx * ts.size * scale.scale

\* C14: concat is associative, component by component, also for matrices
\* with b # c.
C14_ConcatAssociative ==
    Called("concat twice") => call.out[1].left = call.out[1].right

\* C15: the identity matrix is a two-sided unit of concat.
C15_IdentityUnit ==
    Called("concat") =>
        /\ call.m1 = CTMDefault => call.out[1] = call.m2
        /\ call.m2 = CTMDefault => call.out[1] = call.m1

\* concat(M, Identity) for a sheared, translated M
C15_Witness ==
    /\ Called("concat")
    /\ call.m2 = CTMDefault
    /\ call.m1 = [a |-> 1, b |-> 1, c |-> 0, d |-> 1, e |-> 2, f |-> 3]
    /\ call.out[1] = call.m1

\* C16: with the identity CTM and a device scale of height H and scale 1,
\* transform maps (x, y) to (x, H - y).
C16_TransformIdentity ==
    (Called("transform") /\ call.ctm = CTMDefault /\ call.sc.scale = 1) =>
        call.out[1] = [x |-> call.xy.x, y |-> call.sc.height - call.xy.y]

C16_Witness ==
    /\ Called("transform")
    /\ call.ctm = CTMDefault
    /\ call.sc = [height |-> 100, scale |-> 1]
    /\ call.xy = [x |-> 3, y |-> 7]
    /\ call.out[1] = [x |-> 3, y |-> 93]

(***************************************************************************)
(* Properties of a render (Spec), continued.                               *)
(***************************************************************************)
\* C17: an operator that fails fatally ends the render with that error: the
\* error is returned by the step that raised it, and no step follows it (no
\* later operator is executed, nothing more reaches the scene).
C17_FailureStops ==
    [][/\ pc # "failed"
       /\ err' # "" => (pc' = "failed" /\ scene' = scene \o SubSeq(scene', Len(scene) + 1, Len(scene')))]_vars

\* an operator failed after the scene had received a stroke or fill of the
\* stream, with operators left to take
C17_Witness ==
    /\ pc = "failed"
    /\ err # ""
    /\ 0 < n /\ n < MaxOps
    /\ Len(scene) > 1

\* C18: a font resource that fails to load is only left out of the font
\* map: the fonts that load are in it and the page goes on to its content
\* stream.
C18_BadFontSkipped ==
    (pc # "start" /\ dimensions(media_box).out = "ok") =>
        /\ err # "font"
        /\ DOMAIN font_map = {f \in DOMAIN page_fonts : page_fonts[f]}

\* four numbers, Integer or Real, with a positive width and height
FourNumbers(mb) ==
    /\ mb # None
    /\ mb[1].t = "Array"
    /\ Len(mb[1].e) = 4
    /\ all_float(mb[1].e)
    /\ mb[1].e[3].n > 0 /\ mb[1].e[4].n > 0

MediaBoxErrors ==
    {"lopdf: dictionary key", TypeError, "Expected w, h > 0", "Expected [0 0 w h]"}

\* C19: a MediaBox [x0 y0 w h] of four numbers, Integer or Real, with any
\* x0 and y0, resolves to the page size (w, h), from which the device scale
\* is taken; no such box fails the render with a MediaBox error.
C19_MediaBoxAccepted ==
    (pc # "start" /\ FourNumbers(media_box)) =>
        /\ err \notin MediaBoxErrors
        /\ scale = [height |-> Canvas.height,
                    scale |-> Canvas.width \div media_box[1].e[3].n]

\* the operand shape each handled operator expects
Expects(o) ==
    CASE o \in {"Tm", "cm", "c"} -> <<"number", "number", "number", "number", "number", "number">>
      [] o = "re" -> <<"number", "number", "number", "number">>
      [] o \in {"scn", "SCN"} -> <<"number", "number", "number">>
      [] o \in {"m", "l"} -> <<"number", "number">>
      [] o = "w" -> <<"number">>
      [] o = "Tf" -> <<"name", "number">>
      [] o = "TJ" -> <<"array">>
      [] OTHER -> <<>>

Coerces(obj, shape) ==
    CASE shape = "number" -> obj.t \in {"Integer", "Real"}
      [] shape = "name" -> obj.t = "Name"
      [] shape = "array" -> obj.t = "Array"

\* a handled operator with the right number of operands, one of which does
\* not have the expected shape
BadOperand(opr) ==
    /\ Len(Expects(opr.o)) > 0
    /\ Len(opr.a) = Len(Expects(opr.o))
    /\ \E i \in 1..Len(opr.a) : ~Coerces(opr.a[i], Expects(opr.o)[i])

\* C20: a handled operator whose operand cannot be coerced to the expected
\* number, name or array fails the render with an error value: it is not
\* skipped and it does not crash.
C20_BadOperandFails ==
    (n > 0 /\ BadOperand(op)) => (pc = "failed" /\ err # "")

(***************************************************************************)
(* Properties of the functions called alone (SpecPure), continued.         *)
(***************************************************************************)
\* the difference pixel as documented: largest channel difference, times 3,
\* at most 255, on R, G and B, alpha 255
DocumentedDifference(p1, p2) ==
    LET d == pixel_diff(p1, p2)
        v == IF 3 * d > 255 THEN 255 ELSE 3 * d
    IN <<v, v, v, 255>>

\* C21: compare and diff_images write the same difference pixel for every
\* pair of input pixels: the largest absolute R, G, B difference, times 3,
\* clamped to 255, on all three colour channels, with alpha 255.
C21_SameDifferencePixel ==
    Called("difference") =>
        /\ call.out[1].compare = DocumentedDifference(call.actual, call.expected)
        /\ call.out[1].diff_images = call.out[1].compare

\* C22: concat composes the maps transform applies: transforming a point
\* with concat(m1, m2) gives the device point of mapping it through m2 and
\* transforming the image with m1.
C22_ConcatComposes ==
    Called("compose") => call.out[1].composed = call.out[1].stepwise

(***************************************************************************)
(* Properties of a render (Spec), continued.                               *)
(***************************************************************************)
HasText(state) == Len(state) > 0 /\ Last(state).text_state # None

text_matrix(state) == Last(state).text_state[1].matrix

\* C23: the matrix of the text state is the CTM in force when the text
\* matrix was last established, composed with the text-matrix operand: BT
\* (no operand, the identity) stores the CTM itself, Tm stores
\* concat(CTM, operand), and no other operator, cm included, changes it.
C23_TextMatrixThroughCTM ==
    [][(Stepped /\ pc' = "loop" /\ HasText(graphics_state')) =>
        CASE Matches(op') = "BT" ->
                 text_matrix(graphics_state') = Last(graphics_state).ctm
          [] Matches(op') = "Tm" ->
                 text_matrix(graphics_state') = concat(Last(graphics_state).ctm, CTMOf(op'.a))
          [] OTHER ->
                 HasText(graphics_state) =>
                     text_matrix(graphics_state') = text_matrix(graphics_state)]_vars

\* C24: Tm replaces the text state with a fresh default whose matrix is
\* concat(current CTM, operand): after Tm the pen position is 0, the size is
\* 0 and no font is selected, whatever Tf or TJ came before.
C24_TmResets ==
    (pc = "loop" /\ n > 0 /\ Matches(op) = "Tm") =>
        /\ Len(graphics_state) > 0
        /\ Last(graphics_state).text_state =
               Some([position |-> 0, size |-> 0, font |-> None,
                     matrix |-> concat(Last(graphics_state).ctm, CTMOf(op.a))])

\* a Tm inside a text object in which a TJ has shown glyphs with a font
C24_Witness ==
    /\ pc = "loop"
    /\ Matches(op) = "Tm"
    /\ text.open
    /\ count.glyphs > 0
    /\ Last(graphics_state).text_state[1].position = 0
    /\ Last(graphics_state).text_state[1].font = None

\* the scene operations the current operator has emitted
EmittedNow == SelectSeq([i \in 1..Len(scene) |-> IF origin[i] = n THEN <<scene[i]>> ELSE <<>>],
                        LAMBDA e : e # <<>>)

\* C25: B emits a non-zero fill of the current path with the non-stroke
\* color, then a stroke of the same path with the stroke color and width
\* line_width * scale, and resets the path.
C25_BFillsThenStrokes ==
    (pc = "loop" /\ n > 0 /\ op = Op("B", <<>>) /\ Len(graphics_state) > 0) =>
        LET gs == Last(graphics_state)
            e == EmittedNow
        IN /\ Len(e) = 2
           /\ e[1][1].kind = "fill" /\ e[1][1].rule = "NonZero"
           /\ e[1][1].color = gs.non_stroke_color
           /\ e[2][1].kind = "stroke"
           /\ e[2][1].color = gs.stroke_color
           /\ e[2][1].width = gs.line_width * scale.scale
           /\ e[2][1].path = e[1][1].path
           /\ gs.path = PathNew

\* the ExtGState resources of the page: alpha overrides by resource name
ExtGState == [GS0 |-> [ca |-> 0, CA |-> 0]]

\* C26: gs /Name applies the named ExtGState: ca replaces the alpha of the
\* non-stroke color and CA the alpha of the stroke color; a later scn or
\* SCN changes r, g, b only and keeps the alpha current at that time.
C26_AlphaApplied ==
    [][(Stepped /\ pc' = "loop" /\ Len(graphics_state) > 0 /\ Len(graphics_state') > 0) =>
        LET gs0 == Last(graphics_state)
            gs1 == Last(graphics_state')
        IN /\ (op'.o = "gs" /\ Len(op'.a) = 1 /\ op'.a[1].t = "Name"
                /\ op'.a[1].s \in DOMAIN ExtGState) =>
                   /\ gs1.non_stroke_color.a = ExtGState[op'.a[1].s].ca
                   /\ gs1.stroke_color.a = ExtGState[op'.a[1].s].CA
           /\ Matches(op') = "scn" =>
                   gs1.non_stroke_color =
                       [r |-> op'.a[1].n, g |-> op'.a[2].n, b |-> op'.a[3].n,
                        a |-> gs0.non_stroke_color.a]
           /\ Matches(op') = "SCN" =>
                   gs1.stroke_color =
                       [r |-> op'.a[1].n, g |-> op'.a[2].n, b |-> op'.a[3].n,
                        a |-> gs0.stroke_color.a]]_vars

\* the device point a path element ends at
EndPoint(el) == [x |-> el.x, y |-> el.y]

\* C27: v x2 y2 x3 y3 appends a cubic segment whose first control point is
\* the current device-space point and whose other two points are the
\* operands transformed by the current CTM.
C27_vAppendsCubic ==
    [][(Stepped /\ pc' = "loop" /\ op'.o = "v" /\ Len(op'.a) = 4 /\ all_float(op'.a)
        /\ Len(graphics_state) > 0 /\ Len(Last(graphics_state).path) > 0) =>
        LET gs == Last(graphics_state)
            p2 == transform([x |-> op'.a[1].n, y |-> op'.a[2].n], gs.ctm, scale)
            p3 == transform([x |-> op'.a[3].n, y |-> op'.a[4].n], gs.ctm, scale)
        IN /\ Len(graphics_state') > 0
           /\ Last(graphics_state').path =
                  Append(gs.path, BezierTo(EndPoint(Last(gs.path)), p2, p3))]_vars

\* the device point of (x, y): (scale * x', H - scale * y') for (x', y') the
\* CTM image of (x, y)
DevicePoint(x, y, ctm) ==
    LET p == apply_ctm([x |-> x, y |-> y], ctm)
    IN [x |-> scale.scale * p.x, y |-> scale.height - scale.scale * p.y]

\* m and l append their operand point at its device position
PlacesPoint ==
    (Stepped /\ pc' = "loop" /\ Matches(op') \in {"m", "l"}) =>
        LET gs == Last(graphics_state)
            d == DevicePoint(op'.a[1].n, op'.a[2].n, gs.ctm)
        IN Last(graphics_state').path =
               Append(gs.path, [v |-> IF Matches(op') = "m" THEN "MoveTo" ELSE "LineTo",
                                x |-> d.x, y |-> d.y])

\* C28 as stated: S emits exactly one stroke, of the path built since the
\* last painting operator, every m/l point at its device position, with
\* the current stroke color and the width line_width * scale.
C28_StrokeSinceLastPaint ==
    [][/\ PlacesPoint
       /\ (Stepped /\ pc' = "loop" /\ Matches(op') = "S") =>
              LET gs == Last(graphics_state)
              IN scene' = Append(scene, [kind |-> "stroke", path |-> built,
                                         color |-> gs.stroke_color,
                                         width |-> gs.line_width * scale.scale])]_vars

\* C28, amended: S emits exactly one stroke, of the current path of the
\* current graphics state, every m/l point at its device position, with
\* the current stroke color and the width line_width * scale.
C28_StrokeCurrentPath ==
    [][/\ PlacesPoint
       /\ (Stepped /\ pc' = "loop" /\ Matches(op') = "S") =>
              LET gs == Last(graphics_state)
              IN scene' = Append(scene, [kind |-> "stroke", path |-> gs.path,
                                         color |-> gs.stroke_color,
                                         width |-> gs.line_width * scale.scale])]_vars

\* `3 w 10 10 m 20 30 l S`: one stroke of a two-point path, width 6
C28_Witness ==
    /\ pc = "loop"
    /\ Matches(op) = "S"
    /\ Len(EmittedNow) = 1
    /\ EmittedNow[1][1].kind = "stroke"
    /\ EmittedNow[1][1].path = <<[v |-> "MoveTo", x |-> 20, y |-> 180],
                                  [v |-> "LineTo", x |-> 40, y |-> 140]>>
    /\ EmittedNow[1][1].width = 6

(***************************************************************************)
(* Properties of the functions called alone (SpecPure), continued.         *)
(***************************************************************************)
\* transform as documented: (sc.scale * x', sc.height - sc.scale * y') for
\* (x', y') the CTM image of (x, y)
DeviceAt(x, y, ctm, sc) ==
    LET p == apply_ctm([x |-> x, y |-> y], ctm)
    IN [x |-> sc.scale * p.x, y |-> sc.height - sc.scale * p.y]

\* C29: re x y w h appends a rectangle with origin transform(x, y) and size
\* transform(x + w, y + h) - transform(x, y); under the identity CTM at
\* scale 1 on a page of height H it covers device x from x to x + w and
\* device y from H - (y + h) to H - y.
C29_RectFromTwoCorners ==
    Returned("re") =>
        LET x == call.a[1].n
            y == call.a[2].n
            w == call.a[3].n
            h == call.a[4].n
            gs == Last(call.state)
            p0 == DeviceAt(x, y, gs.ctm, call.sc)
            p1 == DeviceAt(x + w, y + h, gs.ctm, call.sc)
            path == Last(call.out[1].state).path
            el == Last(path)
        IN /\ Len(path) = Len(gs.path) + 1
           /\ el = [v |-> "Rect", x |-> p0.x, y |-> p0.y, w |-> p1.x - p0.x, h |-> p1.y - p0.y]
           /\ (gs.ctm = CTMDefault /\ call.sc.scale = 1) =>
                  /\ {el.x, el.x + el.w} = {x, x + w}
                  /\ {el.y, el.y + el.h} = {call.sc.height - (y + h), call.sc.height - y}

\* `0 0 50 50 re` on a 100 x 100 page at scale 1: the rectangle (0, 50)-(50, 100)
C29_Witness ==
    /\ Returned("re")
    /\ Last(call.state).ctm = CTMDefault
    /\ call.sc = [height |-> 100, scale |-> 1]
    /\ call.a = Ints(<<0, 0, 50, 50>>)
    /\ Last(call.out[1].state).path = <<[v |-> "Rect", x |-> 0, y |-> 100, w |-> 50, h |-> -50]>>

(***************************************************************************)
(* Properties of a render (Spec), continued.                               *)
(***************************************************************************)
\* C30: f emits exactly one fill of the current path with the non-zero
\* rule, f* exactly one with the even-odd rule, each with the non-stroke
\* color current at that moment; neither emits a stroke.
C30_OneFillPerRule ==
    [][(Stepped /\ pc' = "loop" /\ op'.o \in {"f", "f*"} /\ Len(op'.a) = 0) =>
        LET gs == Last(graphics_state)
        IN scene' = Append(scene, [kind |-> "fill", path |-> gs.path,
                                   color |-> gs.non_stroke_color,
                                   rule |-> IF op'.o = "f" THEN "NonZero" ELSE "EvenOdd"])]_vars

\* `1 0 0 scn 10 10 m f*`: one even-odd fill of a one-element path in red
C30_Witness ==
    /\ pc = "loop"
    /\ op = Op("f*", <<>>)
    /\ Len(EmittedNow) = 1
    /\ EmittedNow[1][1].kind = "fill"
    /\ EmittedNow[1][1].rule = "EvenOdd"
    /\ EmittedNow[1][1].color = [r |-> 1, g |-> 0, b |-> 0, a |-> 1]
    /\ Len(EmittedNow[1][1].path) = 1
\* C31: with a graphics state held, Tf /Name size sets the font and the size
\* of the text state when Name is a key of the font map and a text state
\* exists, leaving everything else as it was; when Name is not in the font
\* map, or there is no text state, Tf changes nothing and does not fail.
C31_TfSetsFontAndSize ==
    (Called("Tf") /\ Len(call.state) > 0) =>
        LET r == call.out[1]
            k == Len(call.state)
            gs == Last(call.state)
            found == call.a[1].s \in DOMAIN call.fm
        IN IF found /\ gs.text_state # None
           THEN is_float(call.a[2]) =>
                    /\ r.out = "ok"
                    /\ r.emit = <<>>
                    /\ Len(r.state) = k
                    /\ \A j \in 1..(k - 1) : r.state[j] = call.state[j]
                    /\ r.state[k].text_state # None
                    /\ r.state[k].text_state[1].font = Some(call.fm[call.a[1].s])
                    /\ r.state[k].text_state[1].size = as_float(call.a[2])
                    /\ r.state[k].text_state[1].position = gs.text_state[1].position
                    /\ r.state[k].text_state[1].matrix = gs.text_state[1].matrix
                    /\ [r.state[k] EXCEPT !.text_state = None] =
                           [gs EXCEPT !.text_state = None]
           ELSE r.out = "ok" /\ r.emit = <<>> /\ r.state = call.state

\* Tf /F1 12 on the upper of two graphics states, whose text state had F0 at size 2
C31_Witness ==
    /\ Called("Tf")
    /\ Len(call.state) = 2
    /\ call.a = <<Name("F1"), Real(12)>>
    /\ Last(call.state).text_state # None
    /\ Last(call.state).text_state[1].font = Some("F0")
    /\ Last(call.state).text_state[1].size = 2
    /\ call.out[1].out = "ok"
    /\ Last(call.out[1].state).text_state[1].font = Some("F1")
    /\ Last(call.out[1].state).text_state[1].size = 12

\* the graphics state that was current when the q that put frame j below
\* the current one executed
SavedAt(j) == saved[Len(saved) - (Len(graphics_state) - 1) + j]

\* C32: every graphics state below the current one is still exactly what it
\* was when its q saved it, whatever operators have run since (cm, w, scn,
\* SCN, path, text and painting operators, failed ones included): they
\* modify only the current state; and q makes the new current state a copy
\* of the one it saves.
C32_SavedFramesUnchanged ==
    /\ \A j \in 1..(Len(graphics_state) - 1) :
           /\ Len(saved) - (Len(graphics_state) - 1) + j \in DOMAIN saved
           /\ SavedAt(j) = Some(graphics_state[j])
    /\ (pc = "loop" /\ Matches(op) = "q" /\ Last(saved) # None) =>
           /\ Len(graphics_state) >= 2
           /\ Last(graphics_state) = Last(saved)[1]
           /\ graphics_state[Len(graphics_state) - 1] = Last(saved)[1]

\* after q, a cm and a path operator have changed the current state, whose
\* CTM and path now differ from those of the frame below
C32_Witness ==
    /\ pc = "loop"
    /\ Len(graphics_state) = 2
    /\ Matches(op) \in {"m", "l", "c", "re"}
    /\ Last(graphics_state).ctm # graphics_state[1].ctm
    /\ Last(graphics_state).path # graphics_state[1].path
    /\ graphics_state[1] = Last(saved)[1]

\* C35: a q executed when no graphics state is held does not fail: it
\* installs one default graphics state (identity CTM, black colors, empty
\* path, no text state, line width 1) and the render goes on.
C35_qInstallsDefault ==
    (n > 0 /\ Matches(op) = "q" /\ Last(saved) = None) =>
        /\ pc \in {"loop", "done"}
        /\ err = ""
        /\ Len(graphics_state) = 1
        /\ graphics_state[1].ctm = [a |-> 1, b |-> 0, c |-> 0, d |-> 1, e |-> 0, f |-> 0]
        /\ graphics_state[1].stroke_color = rgbf(0, 0, 0)
        /\ graphics_state[1].non_stroke_color = rgbf(0, 0, 0)
        /\ graphics_state[1].path = <<>>
        /\ graphics_state[1].text_state = None
        /\ graphics_state[1].line_width = 1

\* cm, then an unmatched Q that removes the only graphics state, then q
C35_Witness ==
    /\ n = 3
    /\ Matches(op) = "q"
    /\ Last(saved) = None
    /\ popped = NoPop
    /\ pc = "loop"
    /\ graphics_state = <<GraphicsStateDefault>>

\* the segment a path-construction operator appends, by the documented
\* mapping, under matrix ctm at device scale sc
SegmentAt(opr, ctm, sc) ==
    LET v(i) == as_float(opr.a[i])
        P(i) == DeviceAt(v(i), v(i + 1), ctm, sc)
        far == DeviceAt(v(1) + v(3), v(2) + v(4), ctm, sc)
    IN CASE Matches(opr) = "m" -> MoveTo(P(1))
         [] Matches(opr) = "l" -> LineTo(P(1))
         [] Matches(opr) = "c" -> BezierTo(P(1), P(3), P(5))
         [] Matches(opr) = "re" -> Rect(P(1), [x |-> far.x - P(1).x, y |-> far.y - P(1).y])

\* operator i of the stream of the call ran and returned no error
RanOk(i) ==
    /\ i \in 1..(Len(call.out[1].trace) - 1)
    /\ i < Len(call.out[1].trace) - 1 \/ call.out[1].out = "ok"
    /\ Len(call.out[1].trace[i]) > 0

\* C33: m, l, c and re append a segment whose points are the operands
\* mapped with the CTM the current graphics state has when the operator
\* executes, and change nothing else; a cm leaves the path built so far, the
\* colors, the line width, the text state and the frames below as they
\* were: it changes the CTM of the current graphics state only.
C33_PointsUnderCTMInForce ==
    Called("draw_ops") =>
        \A i \in 1..Len(call.ops) : RanOk(i) =>
            LET opr == call.ops[i]
                before == call.out[1].trace[i]
                after == call.out[1].trace[i + 1]
                gs == Last(before)
            IN /\ Matches(opr) \in {"m", "l", "c", "re"} =>
                      /\ after = [before EXCEPT ![Len(before)] =
                             [gs EXCEPT !.path =
                                 Append(gs.path, SegmentAt(opr, gs.ctm, call.sc))]]
                      /\ call.out[1].sent[i] = <<>>
               /\ Matches(opr) = "cm" =>
                      /\ Len(after) = Len(before)
                      /\ \A j \in 1..(Len(before) - 1) : after[j] = before[j]
                      /\ Last(after).path = gs.path
                      /\ Last(after).stroke_color = gs.stroke_color
                      /\ Last(after).non_stroke_color = gs.non_stroke_color
                      /\ Last(after).line_width = gs.line_width
                      /\ Last(after).text_state = gs.text_state
                      /\ call.out[1].sent[i] = <<>>

\* cm, a path operator, cm: the segment added is the one the matrix between
\* the two cm gives, which differs from what the matrix before the first and
\* the matrix after the second would give
C33_Witness ==
    /\ Called("draw_ops")
    /\ call.out[1].out = "ok"
    /\ Len(call.ops) = 3
    /\ Matches(call.ops[1]) = "cm" /\ Matches(call.ops[3]) = "cm"
    /\ Matches(call.ops[2]) \in {"m", "l", "c", "re"}
    /\ LET seg == Last(Last(call.out[1].state).path)
       IN /\ seg = SegmentAt(call.ops[2], Last(call.out[1].trace[2]).ctm, call.sc)
          /\ seg # SegmentAt(call.ops[2], Last(call.out[1].trace[1]).ctm, call.sc)
          /\ seg # SegmentAt(call.ops[2], Last(call.out[1].state).ctm, call.sc)
    /\ Last(call.out[1].state).ctm # Last(call.out[1].trace[2]).ctm
    /\ Len(Last(call.out[1].state).path) = 2

\* q minus Q among operators a..b of ops
Depth(ops, a, b) ==
    Cardinality({j \in a..b : ops[j].o = "q"}) - Cardinality({j \in a..b : ops[j].o = "Q"})

\* operator k is the Q that restores what the q at i saved
Matched(ops, i, k) ==
    /\ i < k
    /\ ops[i].o = "q" /\ ops[k].o = "Q"
    /\ \A j \in (i + 1)..(k - 1) : Depth(ops, i + 1, j) >= 0
    /\ Depth(ops, i + 1, k - 1) = 0

\* C34: a path that is non-empty when q executes is saved with the state:
\* the matching Q brings the same segments back, whatever was painted in
\* between, so an S right after the q and an S right after the Q stroke the
\* same path; m l q S Q S sends the same line to the canvas twice and the
\* path after its Q is that line, not empty.
C34_PathSavedWithState ==
    Called("draw_ops") =>
        LET run == call.out[1]
            line == <<MoveTo([x |-> 20, y |-> 180]), LineTo([x |-> 40, y |-> 140])>>
        IN /\ \A i \in 1..Len(call.ops), k \in 1..Len(call.ops) :
                  (/\ Matched(call.ops, i, k) /\ RanOk(i) /\ RanOk(k)
                   /\ Last(run.trace[i]).path # <<>>) =>
                      /\ Len(run.trace[k + 1]) > 0
                      /\ Last(run.trace[k + 1]).path = Last(run.trace[i]).path
                      /\ (call.ops[i + 1].o = "S" /\ RanOk(k + 1) /\ call.ops[k + 1].o = "S") =>
                             /\ Len(run.sent[i + 1]) = 1
                             /\ run.sent[i + 1][1].path = Last(run.trace[i]).path
                             /\ run.sent[k + 1] = run.sent[i + 1]
           /\ call.ops = <<Op("m", Ints(<<10, 10>>)), Op("l", Ints(<<20, 30>>)), Op("q", <<>>),
                           Op("S", <<>>), Op("Q", <<>>), Op("S", <<>>)>> =>
                  /\ run.out = "ok"
                  /\ run.sent = <<<<>>, <<>>, <<>>, <<StrokeOp(line, Black, 2)>>, <<>>,
                                  <<StrokeOp(line, Black, 2)>>>>
                  /\ Last(run.trace[5]).path = <<>>
                  /\ Last(run.trace[6]).path = line

\* m l q S Q S has run: both S have stroked a path of two segments
C34_Witness ==
    /\ Called("draw_ops")
    /\ call.ops = <<Op("m", Ints(<<10, 10>>)), Op("l", Ints(<<20, 30>>)), Op("q", <<>>),
                    Op("S", <<>>), Op("Q", <<>>), Op("S", <<>>)>>
    /\ call.out[1].out = "ok"
    /\ Len(call.out[1].sent[4]) = 1 /\ Len(call.out[1].sent[4][1].path) = 2
    /\ call.out[1].sent[6] = call.out[1].sent[4]
    /\ Len(Last(call.out[1].trace[6]).path) = 2

\* C36: once the window has received CloseRequested and the event loop has
\* ended with run_app returning Ok, go eventually returns and the process
\* ends with ExitCode::SUCCESS.
C36_CloseLeadsToSuccess ==
    (viewer.pc = "loop" /\ viewer.exit) ~> (viewer.pc = "exited" /\ viewer.code = "SUCCESS")

====
